---- MODULE Spec2Model ----
(***************************************************************************)
(* Model of the microphone streaming pipeline of XIAO_FIRMWARE_USPURGE:    *)
(* the sample ring buffer (main.c), the DMIC capture thread, the 10 ms     *)
(* audio timer handler, the BLE streaming thread that arms and cancels it,  *)
(* the GATT subscription callbacks and the sine-wave streaming API          *)
(* (custom_audio_service.c).                                               *)
(***************************************************************************)
EXTENDS Integers, Sequences, FiniteSets, TLC

(* ---------------------------------------------------------------------- *)
(* Bounds.  RING_BUFFER_SAMPLES, CHUNK_SAMPLES and LogEvery are the         *)
(* program's constants 1024, 160 and 100 scaled down; the others bound     *)
(* the environment.                                                        *)
(* ---------------------------------------------------------------------- *)
RING_BUFFER_SAMPLES == 4

CHUNK_SAMPLES == 2

LogEvery == 2

MaxPushed == 8

MaxBurst == 6

MaxCaptured == 6

MaxBlock == 2

MaxSinePackets == 3

\* main.c:36: the number of blocks of mem_slab
DMIC_BLOCK_COUNT == 4

\* custom_audio_service.c:22
SAMPLES_PER_PACKET == 10

\* custom_audio_service.c:26: (uint32_t)((uint64_t)440 * 0xFFFFFFFF / 8000)
phase_increment == 236223201

N == RING_BUFFER_SAMPLES

Min(a, b) == IF a < b THEN a ELSE b

VARIABLES
    \* main.c: the ring
    ring_buffer,          \* int16_t ring_buffer[RING_BUFFER_SAMPLES]
    write_pos,            \* write cursor
    read_pos,             \* read cursor
    ring_mutex,           \* owner of ring_mutex: "free", "dmic" or "timer"
    \* connection and subscription
    conn,                 \* a peer is connected
    notify_enabled,       \* custom_audio_service.c: subscription flag
    mic_streaming,        \* the flag behind is_streaming_active()
    \* main.c: audio timer (the Pacer)
    timer_pending,        \* audio_timer_work is scheduled (delayed or queued)
    timer_canceling,      \* it was cancelled while its handler was running
    timer_pc,             \* position of audio_timer_handler
    sample_buffer,        \* its local sample_buffer (the samples copied so far)
    pop_to_read,          \* local to_read of ring_buffer_read_samples
    audio_packet_counter,
    \* main.c: ble_streaming_thread
    ble_pc,
    \* main.c: dmic_capture_thread
    dmic_pc,
    dmic_started,
    holding,              \* the number of blocks of mem_slab the thread holds
    buffer,               \* the samples of the block returned by dmic_read
    push_i,               \* loop index i of ring_buffer_write_samples
    block_counter,        \* kept modulo LogEvery, all that line 344 reads of it
    \* custom_audio_service.c: sine-wave streaming
    streaming_active,
    packet_count,
    error_count,
    phase_accumulator,
    sine_pending,         \* sine_work is scheduled
    sine_canceling,       \* it was cancelled while its handler was running
    sine_pc,              \* position of sine_work_handler
    \* ghosts
    next_sample,          \* number of samples pushed so far; a sample is named by
                          \* its position in the order of pushes
    delivered,            \* the frames handed to the transmit sink, in order
    popped,               \* TRUE once any pop has been made
    lastop,               \* SpecRing: the last ring call, its argument, result, pre-state
    ev,                   \* the last disconnect or service API call
    e2e,                  \* SpecE2E: what happened since the last activation
    obs                   \* the sends of the timer handler that succeeded since
                          \* the last Disabled->Active transition; the length
                          \* of the current run of consecutive failed notifies
                          \* of the sine handler and the LOG_ERR lines it got

ringvars == <<ring_buffer, write_pos, read_pos, ring_mutex>>

envvars == <<conn, notify_enabled, mic_streaming>>

timervars == <<timer_pending, timer_canceling, timer_pc, sample_buffer,
               pop_to_read, audio_packet_counter>>

dmicvars == <<dmic_pc, dmic_started, holding, buffer, push_i, block_counter>>

sinevars == <<streaming_active, packet_count, error_count, phase_accumulator,
              sine_pending, sine_canceling, sine_pc>>

ghostvars == <<next_sample, delivered, popped, lastop, ev, e2e, obs>>

\* the samples pushed so far, in order
pushed == [i \in 1..next_sample |-> i - 1]

vars == <<ringvars, envvars, timervars, ble_pc, dmicvars, sinevars, ghostvars>>

(* ---------------------------------------------------------------------- *)
(* The ring buffer, main.c:55-112.  A ring is the record of the array and  *)
(* the two cursors.                                                        *)
(* ---------------------------------------------------------------------- *)
RB == [buf |-> ring_buffer, w |-> write_pos, r |-> read_pos]

ring_buffer_available_samples(w, r) ==
    IF w >= r THEN RING_BUFFER_SAMPLES - (w - r) - 1 ELSE r - w - 1

ring_buffer_used_samples(w, r) ==
    IF w >= r THEN w - r ELSE RING_BUFFER_SAMPLES - (r - w)

\* variant: a sample that finds the ring full is rejected
WriteSample_reject(rb, s) ==
    IF ring_buffer_available_samples(rb.w, rb.r) > 0
    THEN [buf |-> [rb.buf EXCEPT ![rb.w] = s],
          w   |-> (rb.w + 1) % RING_BUFFER_SAMPLES,
          r   |-> rb.r]
    ELSE rb

\* variant: the write cursor is advanced without wrapping
WriteSample_no_wrap(rb, s) ==
    IF ring_buffer_available_samples(rb.w, rb.r) > 0
    THEN [buf |-> [rb.buf EXCEPT ![rb.w] = s],
          w   |-> rb.w + 1,
          r   |-> rb.r]
    ELSE [buf |-> [rb.buf EXCEPT ![rb.w] = s],
          w   |-> rb.w + 1,
          r   |-> (rb.r + 1) % RING_BUFFER_SAMPLES]

\* one iteration of the loop of ring_buffer_write_samples
WriteSample(rb, s) ==
    IF ring_buffer_available_samples(rb.w, rb.r) > 0
    THEN [buf |-> [rb.buf EXCEPT ![rb.w] = s],
          w   |-> (rb.w + 1) % RING_BUFFER_SAMPLES,
          r   |-> rb.r]
    ELSE [buf |-> [rb.buf EXCEPT ![rb.w] = s],
          w   |-> (rb.w + 1) % RING_BUFFER_SAMPLES,
          r   |-> (rb.r + 1) % RING_BUFFER_SAMPLES]

RECURSIVE WriteLoop(_, _, _)
WriteLoop(rb, samples, i) ==
    IF i > Len(samples) THEN rb
    ELSE WriteLoop(WriteSample(rb, samples[i]), samples, i + 1)

ring_buffer_write_samples(rb, samples) == WriteLoop(rb, samples, 1)

\* variant: the sample is copied but the read cursor stays
ReadSample_no_advance(st) ==
    [rb  |-> st.rb,
     out |-> Append(st.out, st.rb.buf[st.rb.r])]

\* one iteration of the loop of ring_buffer_read_samples
ReadSample(st) ==
    [rb  |-> [st.rb EXCEPT !.r = (st.rb.r + 1) % RING_BUFFER_SAMPLES],
     out |-> Append(st.out, st.rb.buf[st.rb.r])]

RECURSIVE ReadLoop(_, _)
ReadLoop(st, to_read) ==
    IF Len(st.out) >= to_read THEN st
    ELSE ReadLoop(ReadSample(st), to_read)

\* variant: the request is not clamped to the samples present
ring_buffer_read_samples_unclamped(rb, max_samples) ==
    ReadLoop([rb |-> rb, out |-> <<>>], max_samples)

\* the result is the ring after the call and the samples copied out;
\* the function's return value is Len(out)
ring_buffer_read_samples(rb, max_samples) ==
    LET available == ring_buffer_used_samples(rb.w, rb.r)
        to_read   == IF max_samples < available THEN max_samples ELSE available
    IN  ReadLoop([rb |-> rb, out |-> <<>>], to_read)

\* the retained samples, oldest first
Contents(rb) ==
    [i \in 1..ring_buffer_used_samples(rb.w, rb.r) |->
        rb.buf[(rb.r + i - 1) % RING_BUFFER_SAMPLES]]

\* the last k elements of a sequence
LastK(s, k) == SubSeq(s, Len(s) - Min(k, Len(s)) + 1, Len(s))

\* the samples with ids a .. b-1
Samples(a, b) == [i \in 1..(b - a) |-> a + i - 1]

\* the content of a slot that was never written (no sample has this name)
Unwritten == 0 - 1

NoEvent == [name |-> "none", seq |-> 0, was |-> FALSE, cancel |-> FALSE,
            ret |-> "none", notified |-> FALSE, res |-> "none"]

NoObs == [sent_ok |-> 0, fail_run |-> 0, run_logs |-> 0]

\* a uint32_t is kept as its two 16-bit halves
Half == 2 ^ 16

Phase0 == [hi |-> 0, lo |-> 0]

NoSession == [bursts |-> 0, ticks |-> 0, evicted |-> 0, underruns |-> 0,
              stale |-> 0, matched |-> FALSE, turn |-> "none"]

NoOp == [kind |-> "none", arg |-> <<>>, max |-> 0, out |-> <<>>,
         pre |-> <<>>, pre_w |-> 0, pre_r |-> 0, pre_buf |-> <<>>]

(* ---------------------------------------------------------------------- *)
(* SpecRing: arbitrary interleaved sequences of complete push and pop      *)
(* calls on the ring.                                                      *)
(* ---------------------------------------------------------------------- *)
\* the state after construction: the statics of main.c and
\* custom_audio_service.c, the threads at their entry
Init ==
    /\ ring_buffer = [i \in 0..(RING_BUFFER_SAMPLES - 1) |-> Unwritten]
    /\ write_pos = 0
    /\ read_pos = 0
    /\ ring_mutex = "free"
    /\ conn = FALSE
    /\ notify_enabled = FALSE
    /\ mic_streaming = FALSE
    /\ timer_pending = FALSE
    /\ timer_canceling = FALSE
    /\ timer_pc = "idle"
    /\ sample_buffer = <<>>
    /\ pop_to_read = 0
    /\ audio_packet_counter = 0
    /\ ble_pc = "wait"
    /\ dmic_pc = "wait"
    /\ dmic_started = FALSE
    /\ holding = 0
    /\ buffer = <<>>
    /\ push_i = 0
    /\ block_counter = 0
    /\ streaming_active = FALSE
    /\ packet_count = 0
    /\ error_count = 0
    /\ phase_accumulator = Phase0
    /\ sine_pending = FALSE
    /\ sine_canceling = FALSE
    /\ sine_pc = "idle"
    /\ next_sample = 0
    /\ delivered = <<>>
    /\ popped = FALSE
    /\ lastop = NoOp
    /\ ev = NoEvent
    /\ e2e = NoSession
    /\ obs = NoObs

RingInit == Init

RingPush ==
    \E k \in 0..MaxBurst :
        /\ next_sample + k <= MaxPushed
        /\ LET S  == Samples(next_sample, next_sample + k)
               rb == ring_buffer_write_samples(RB, S)
           IN  /\ ring_buffer' = rb.buf
               /\ write_pos' = rb.w
               /\ read_pos' = rb.r
               /\ next_sample' = next_sample + k
               /\ lastop' = [kind |-> "push", arg |-> S, max |-> 0, out |-> <<>>,
                             pre |-> Contents(RB), pre_w |-> write_pos,
                             pre_r |-> read_pos, pre_buf |-> ring_buffer]
        /\ UNCHANGED <<popped, ring_mutex, envvars, timervars, ble_pc, dmicvars,
                       sinevars, delivered, ev, e2e, obs>>

RingPop ==
    \E m \in 0..RING_BUFFER_SAMPLES :
        LET st == ring_buffer_read_samples(RB, m)
        IN  /\ ring_buffer' = st.rb.buf
            /\ write_pos' = st.rb.w
            /\ read_pos' = st.rb.r
            /\ popped' = TRUE
            /\ lastop' = [kind |-> "pop", arg |-> <<>>, max |-> m, out |-> st.out,
                          pre |-> Contents(RB), pre_w |-> write_pos,
                          pre_r |-> read_pos, pre_buf |-> ring_buffer]
            /\ UNCHANGED <<next_sample, ring_mutex, envvars, timervars,
                           ble_pc, dmicvars, sinevars, delivered, ev, e2e, obs>>

RingNext == RingPush \/ RingPop

SpecRing == RingInit /\ [][RingNext]_vars

(* ---------------------------------------------------------------------- *)
(* The streaming flag.  enable_microphone_streaming,                       *)
(* disable_microphone_streaming, stop_mic_streaming, is_streaming_active   *)
(* and send_mic_audio_data are called by main.c and                        *)
(* custom_audio_service.c but defined in neither; they are modelled from   *)
(* the specification's StreamingSession state.  The cursors, the timer and  *)
(* audio_packet_counter are static to main.c, so these functions can reach  *)
(* nothing but the flag.                                                   *)
(* ---------------------------------------------------------------------- *)
is_streaming_active == mic_streaming

enable_microphone_streaming == mic_streaming' = TRUE

disable_microphone_streaming == mic_streaming' = FALSE

stop_mic_streaming == mic_streaming' = FALSE

\* variant: the data is handed to the radio without looking at notify_enabled
audio_data_send_unchecked(res) == [ret |-> res, notified |-> TRUE]

\* custom_audio_service.c:131-138; res is what bt_gatt_notify returns when it
\* is called.  ret is the function's result, notified whether it called
\* bt_gatt_notify.
audio_data_send(res) ==
    IF ~notify_enabled THEN [ret |-> "ENOTCONN", notified |-> FALSE]
    ELSE [ret |-> res, notified |-> TRUE]

send_mic_audio_data(res) == audio_data_send(res).ret

NotifyResults == {"ok", "err"}

(* ---------------------------------------------------------------------- *)
(* Inbound events: connection callbacks (main.c:115-169) and the CCC       *)
(* callback (custom_audio_service.c:43-61)                                 *)
(* ---------------------------------------------------------------------- *)
CCCValues == {"NONE", "NOTIFY", "INDICATE"}

pipeline == <<ringvars, timervars, ble_pc, dmicvars, sinevars,
              next_sample, delivered, popped, lastop, e2e>>

connected ==
    /\ ~conn
    /\ \E err \in {0, 1} :
          /\ conn' = (err = 0)
          /\ ev' = NoEvent
    /\ UNCHANGED <<notify_enabled, mic_streaming, pipeline, obs>>

\* variant: the handler only logs and leaves the stream as it is
disconnected_no_stop ==
    /\ conn
    /\ conn' = FALSE
    /\ UNCHANGED mic_streaming
    /\ ev' = [name |-> "disconnected", seq |-> 0, was |-> mic_streaming,
              cancel |-> FALSE,
              ret |-> "none", notified |-> FALSE, res |-> "none"]
    /\ UNCHANGED <<notify_enabled, pipeline, obs>>

disconnected ==
    /\ conn
    /\ conn' = FALSE
    /\ stop_mic_streaming
    /\ ev' = [name |-> "disconnected", seq |-> 0, was |-> mic_streaming,
              cancel |-> FALSE,
              ret |-> "none", notified |-> FALSE, res |-> "none"]
    /\ UNCHANGED <<notify_enabled, pipeline, obs>>

ccc_cfg_changed ==
    /\ conn
    /\ \E value \in CCCValues :
          /\ notify_enabled' = (value = "NOTIFY")
          /\ IF notify_enabled' THEN enable_microphone_streaming
             ELSE disable_microphone_streaming
          /\ ev' = NoEvent
          /\ obs' = IF ~mic_streaming /\ mic_streaming'
                    THEN [obs EXCEPT !.sent_ok = 0] ELSE obs
    /\ UNCHANGED <<conn, pipeline>>

(* ---------------------------------------------------------------------- *)
(* ble_streaming_thread, main.c:405-438                                    *)
(* ---------------------------------------------------------------------- *)
\* variant: a handler that is running does not count as pending
audio_timer_is_scheduled == timer_pending

\* k_work_delayable_is_pending(&audio_timer_work): scheduled, queued or running
audio_timer_is_pending == timer_pending \/ timer_pc # "idle"

\* main.c:418-420: leave the polling loop once streaming is enabled
ble_wait ==
    /\ ble_pc = "wait"
    /\ is_streaming_active
    /\ ble_pc' = "arm"
    /\ UNCHANGED <<ringvars, envvars, timervars, dmicvars, sinevars, ghostvars>>

\* main.c:423-430: arm the timer if it is not pending, then sleep
ble_arm ==
    /\ ble_pc = "arm"
    /\ IF ~audio_timer_is_pending
       THEN /\ audio_packet_counter' = 0
            /\ timer_pending' = TRUE
       ELSE UNCHANGED <<audio_packet_counter, timer_pending>>
    /\ ble_pc' = "sleep"
    /\ UNCHANGED <<ringvars, envvars, timer_canceling, timer_pc, sample_buffer,
                   pop_to_read, dmicvars, sinevars, ghostvars>>

\* variant: the thread sleeps on while streaming is active and never comes
\* back to the arming step
ble_check_sleeps_on ==
    /\ ble_pc = "sleep"
    /\ IF ~is_streaming_active
       THEN /\ timer_pending' = FALSE
            /\ timer_canceling' = (timer_pc # "idle")
            /\ ble_pc' = "wait"
       ELSE UNCHANGED <<timer_pending, timer_canceling, ble_pc>>
    /\ UNCHANGED <<ringvars, envvars, timer_pc, sample_buffer, pop_to_read,
                   audio_packet_counter, dmicvars, sinevars, ghostvars>>

\* main.c:430-436: after the sleep, cancel the timer if streaming stopped.
\* k_work_cancel_delayable unschedules the work; a handler that is running
\* runs on, and the work stays in cancellation until it returns.
ble_check ==
    /\ ble_pc = "sleep"
    /\ IF ~is_streaming_active
       THEN /\ timer_pending' = FALSE
            /\ timer_canceling' = (timer_pc # "idle")
       ELSE UNCHANGED <<timer_pending, timer_canceling>>
    /\ ble_pc' = "wait"
    /\ UNCHANGED <<ringvars, envvars, timer_pc, sample_buffer, pop_to_read,
                   audio_packet_counter, dmicvars, sinevars, ghostvars>>

(* ---------------------------------------------------------------------- *)
(* audio_timer_handler, main.c:367-402                                     *)
(* ---------------------------------------------------------------------- *)
\* the work item fires; main.c:369-371
timer_fire ==
    /\ timer_pending
    /\ timer_pc = "idle"
    /\ timer_pending' = FALSE
    /\ timer_pc' = IF ~is_streaming_active THEN "idle" ELSE "pop_lock"
    /\ UNCHANGED <<ringvars, envvars, timer_canceling, sample_buffer, pop_to_read,
                   audio_packet_counter, ble_pc, dmicvars, sinevars, ghostvars>>

\* main.c:375 -> 100-103: take the mutex, compute to_read
timer_pop_lock ==
    /\ timer_pc = "pop_lock"
    /\ ring_mutex = "free"
    /\ ring_mutex' = "timer"
    /\ LET available == ring_buffer_used_samples(write_pos, read_pos)
       IN  pop_to_read' = IF CHUNK_SAMPLES < available THEN CHUNK_SAMPLES
                          ELSE available
    /\ sample_buffer' = <<>>
    /\ timer_pc' = "pop_loop"
    /\ UNCHANGED <<ring_buffer, write_pos, read_pos, envvars, timer_pending,
                   timer_canceling, audio_packet_counter, ble_pc, dmicvars,
                   sinevars, ghostvars>>

\* variant: a partial read is handed to the sink as well
AfterPop_partial_sent(samples_read) ==
    IF samples_read > 0 THEN "send" ELSE "resched"

\* main.c:377, 396: only a full chunk is sent
AfterPop(samples_read) ==
    IF samples_read = CHUNK_SAMPLES THEN "send" ELSE "resched"

\* variant: the function returns without k_mutex_unlock
timer_pop_loop_keeps_lock ==
    /\ timer_pc = "pop_loop"
    /\ IF Len(sample_buffer) < pop_to_read
       THEN LET st == ReadSample([rb |-> RB, out |-> sample_buffer])
            IN  /\ read_pos' = st.rb.r
                /\ sample_buffer' = st.out
                /\ popped' = TRUE
                /\ UNCHANGED <<ring_mutex, timer_pc>>
       ELSE /\ timer_pc' = AfterPop(Len(sample_buffer))
            /\ UNCHANGED <<ring_mutex, read_pos, sample_buffer, popped>>
    /\ UNCHANGED <<ring_buffer, write_pos, envvars, timer_pending,
                   timer_canceling, pop_to_read, audio_packet_counter, ble_pc,
                   dmicvars, sinevars,
                   next_sample, delivered, lastop, ev, e2e, obs>>

\* main.c:105-111: one iteration of the copy loop, or unlock and return
timer_pop_loop ==
    /\ timer_pc = "pop_loop"
    /\ IF Len(sample_buffer) < pop_to_read
       THEN LET st == ReadSample([rb |-> RB, out |-> sample_buffer])
            IN  /\ read_pos' = st.rb.r
                /\ sample_buffer' = st.out
                /\ popped' = TRUE
                /\ UNCHANGED <<ring_mutex, timer_pc>>
       ELSE /\ ring_mutex' = "free"
            /\ timer_pc' = AfterPop(Len(sample_buffer))
            /\ UNCHANGED <<read_pos, sample_buffer, popped>>
    /\ UNCHANGED <<ring_buffer, write_pos, envvars, timer_pending,
                   timer_canceling, pop_to_read, audio_packet_counter, ble_pc,
                   dmicvars, sinevars,
                   next_sample, delivered, lastop, ev, e2e, obs>>

\* main.c:379-395: hand the chunk to the sink, count a success
timer_send ==
    /\ timer_pc = "send"
    /\ \E res \in NotifyResults :
          LET err == send_mic_audio_data(res)
          IN  IF err = "ok"
              THEN /\ audio_packet_counter' = audio_packet_counter + 1
                   /\ timer_pc' = IF audio_packet_counter' % LogEvery = 0
                                  THEN "stats" ELSE "resched"
                   /\ obs' = [obs EXCEPT !.sent_ok = @ + 1]
              ELSE /\ timer_pc' = "resched"
                   /\ UNCHANGED <<audio_packet_counter, obs>>
    /\ delivered' = Append(delivered, sample_buffer)
    /\ UNCHANGED <<ringvars, envvars, timer_pending, timer_canceling,
                   sample_buffer, pop_to_read,
                   ble_pc, dmicvars, sinevars, next_sample, popped, lastop, ev,
                   e2e>>

\* main.c:391: ring_buffer_used_samples() for the log line
timer_stats ==
    /\ timer_pc = "stats"
    /\ timer_pc' = "resched"
    /\ UNCHANGED <<ringvars, envvars, timer_pending, timer_canceling,
                   sample_buffer, pop_to_read, audio_packet_counter, ble_pc,
                   dmicvars, sinevars, ghostvars>>

\* main.c:401: k_work_schedule(&audio_timer_work, K_MSEC(10)), which does
\* nothing for a work that is already scheduled or in cancellation; the
\* handler then returns, which ends the cancellation
timer_resched ==
    /\ timer_pc = "resched"
    /\ timer_pending' = (timer_pending \/ ~timer_canceling)
    /\ timer_canceling' = FALSE
    /\ timer_pc' = "idle"
    /\ sample_buffer' = <<>>
    /\ pop_to_read' = 0
    /\ UNCHANGED <<ringvars, envvars, audio_packet_counter, ble_pc, dmicvars,
                   sinevars, ghostvars>>

(* ---------------------------------------------------------------------- *)
(* start_dmic / stop_dmic, main.c:247-278; ret is the driver's result      *)
(* ---------------------------------------------------------------------- *)
TriggerResults == {"ok", "err"}

\* the value of dmic_started after start_dmic()
start_dmic(ret) == IF dmic_started THEN TRUE ELSE (ret = "ok")

\* the value of dmic_started after stop_dmic()
stop_dmic(ret) == IF ~dmic_started THEN FALSE ELSE (ret # "ok")

(* ---------------------------------------------------------------------- *)
(* dmic_capture_thread, main.c:281-361                                     *)
(* ---------------------------------------------------------------------- *)
\* main.c:293-295
dmic_wait ==
    /\ dmic_pc = "wait"
    /\ is_streaming_active
    /\ dmic_pc' = "start"
    /\ UNCHANGED <<ringvars, envvars, timervars, ble_pc, dmic_started, holding,
                   buffer, push_i, block_counter, sinevars, ghostvars>>

\* main.c:298-304
dmic_start ==
    /\ dmic_pc = "start"
    /\ \E ret \in TriggerResults :
          /\ dmic_started' = start_dmic(ret)
          /\ dmic_pc' = IF dmic_started' THEN "read" ELSE "wait"
    /\ UNCHANGED <<ringvars, envvars, timervars, ble_pc, holding, buffer,
                   push_i, block_counter, sinevars, ghostvars>>

\* main.c:309: dmic_read returns a block taken from mem_slab, -EAGAIN or
\* another error; with no block left in the slab it cannot return one
dmic_read ==
    /\ dmic_pc = "read"
    /\ \/ \E k \in 1..MaxBlock :
             /\ next_sample + k <= MaxCaptured
             /\ holding < DMIC_BLOCK_COUNT
             /\ buffer' = Samples(next_sample, next_sample + k)
             /\ holding' = holding + 1
             /\ dmic_pc' = "process"
       \/ /\ dmic_pc' = "read_failed"
          /\ UNCHANGED <<buffer, holding>>
    /\ UNCHANGED <<ringvars, envvars, timervars, ble_pc, dmic_started, push_i,
                   block_counter, sinevars, ghostvars>>

\* main.c:310-322: after the yield or the delay, stop the DMIC if streaming
\* was disabled, and start the loop again
dmic_read_failed ==
    /\ dmic_pc = "read_failed"
    /\ \E ret \in TriggerResults :
          dmic_started' = IF ~is_streaming_active /\ dmic_started
                          THEN stop_dmic(ret) ELSE dmic_started
    /\ dmic_pc' = "wait"
    /\ UNCHANGED <<ringvars, envvars, timervars, ble_pc, holding, buffer,
                   push_i, block_counter, sinevars, ghostvars>>

\* variant: a block that is not pushed is not released either
dmic_process_keeps_block ==
    /\ dmic_pc = "process"
    /\ dmic_pc' = IF is_streaming_active THEN "push_lock" ELSE "stop_check"
    /\ UNCHANGED <<ringvars, envvars, timervars, ble_pc, dmic_started, holding,
                   buffer, push_i, block_counter, sinevars, ghostvars>>

\* main.c:325: the block is pushed only if streaming is still active
dmic_process ==
    /\ dmic_pc = "process"
    /\ dmic_pc' = IF is_streaming_active THEN "push_lock" ELSE "free"
    /\ UNCHANGED <<ringvars, envvars, timervars, ble_pc, dmic_started, holding,
                   buffer, push_i, block_counter, sinevars, ghostvars>>

\* main.c:341 -> 81: take the mutex
dmic_push_lock ==
    /\ dmic_pc = "push_lock"
    /\ ring_mutex = "free"
    /\ ring_mutex' = "dmic"
    /\ push_i' = 1
    /\ dmic_pc' = "push_loop"
    /\ UNCHANGED <<ring_buffer, write_pos, read_pos, envvars, timervars, ble_pc,
                   dmic_started, holding, buffer, block_counter, sinevars,
                   ghostvars>>

\* main.c:83-95: one iteration of the write loop, or unlock and return
dmic_push_loop ==
    /\ dmic_pc = "push_loop"
    /\ IF push_i <= Len(buffer)
       THEN LET rb == WriteSample(RB, buffer[push_i])
            IN  /\ ring_buffer' = rb.buf
                /\ write_pos' = rb.w
                /\ read_pos' = rb.r
                /\ next_sample' = next_sample + 1
                /\ push_i' = push_i + 1
                /\ UNCHANGED <<ring_mutex, dmic_pc>>
       ELSE /\ ring_mutex' = "free"
            /\ dmic_pc' = IF block_counter % LogEvery = 0 THEN "stats" ELSE "free"
            /\ push_i' = 0
            /\ UNCHANGED <<ring_buffer, write_pos, read_pos, next_sample>>
    /\ UNCHANGED <<envvars, timervars, ble_pc, dmic_started, holding, buffer,
                   block_counter, sinevars, delivered, popped, lastop, ev, e2e,
                   obs>>

\* main.c:344-348: ring_buffer_used_samples() for the log line
dmic_stats ==
    /\ dmic_pc = "stats"
    /\ dmic_pc' = "free"
    /\ UNCHANGED <<ringvars, envvars, timervars, ble_pc, dmic_started, holding,
                   buffer, push_i, block_counter, sinevars, ghostvars>>

\* main.c:352-353: release the block
dmic_free ==
    /\ dmic_pc = "free"
    /\ holding' = holding - 1
    /\ buffer' = <<>>
    /\ block_counter' = (block_counter + 1) % LogEvery
    /\ dmic_pc' = "stop_check"
    /\ UNCHANGED <<ringvars, envvars, timervars, ble_pc, dmic_started, push_i,
                   sinevars, ghostvars>>

\* main.c:356-359
dmic_stop_check ==
    /\ dmic_pc = "stop_check"
    /\ \E ret \in TriggerResults :
          dmic_started' = IF ~is_streaming_active /\ dmic_started
                          THEN stop_dmic(ret) ELSE dmic_started
    /\ dmic_pc' = "wait"
    /\ UNCHANGED <<ringvars, envvars, timervars, ble_pc, holding, buffer,
                   push_i, block_counter, sinevars, ghostvars>>

(* ---------------------------------------------------------------------- *)
(* Spec: the microphone pipeline, every interleaving of the inbound        *)
(* events, the two threads and the timer handler                           *)
(* ---------------------------------------------------------------------- *)
Next ==
    \/ connected
    \/ disconnected
    \/ ccc_cfg_changed
    \/ ble_wait
    \/ ble_arm
    \/ ble_check
    \/ timer_fire
    \/ timer_pop_lock
    \/ timer_pop_loop
    \/ timer_send
    \/ timer_stats
    \/ timer_resched
    \/ dmic_wait
    \/ dmic_start
    \/ dmic_read
    \/ dmic_read_failed
    \/ dmic_process
    \/ dmic_push_lock
    \/ dmic_push_loop
    \/ dmic_stats
    \/ dmic_free
    \/ dmic_stop_check

Spec == Init /\ [][Next]_vars

(* ---------------------------------------------------------------------- *)
(* SpecPacer: the audio timer and the thread that arms and cancels it, in  *)
(* every interleaving with each other and with the inbound events.  The    *)
(* capture thread is reduced to its pushes, each a whole                   *)
(* ring_buffer_write_samples call.  Fairness: ble_streaming_thread is a    *)
(* thread whose sleeps end (k_msleep), and the system work queue runs a    *)
(* scheduled work item once its delay has passed and runs its handler to   *)
(* the end.                                                                *)
(* ---------------------------------------------------------------------- *)
\* main.c:325-341: the capture thread pushes one block while streaming is
\* active
dmic_push_block ==
    /\ is_streaming_active
    /\ ring_mutex = "free"
    /\ \E k \in 1..MaxBlock :
          /\ next_sample + k <= MaxCaptured
          /\ LET rb == ring_buffer_write_samples(
                           RB, Samples(next_sample, next_sample + k))
             IN  /\ ring_buffer' = rb.buf
                 /\ write_pos' = rb.w
                 /\ read_pos' = rb.r
          /\ next_sample' = next_sample + k
    /\ UNCHANGED <<ring_mutex, envvars, timervars, ble_pc, dmicvars, sinevars,
                   delivered, popped, lastop, ev, e2e, obs>>

ble_streaming_thread == ble_wait \/ ble_arm \/ ble_check

audio_timer_handler ==
    \/ timer_fire
    \/ timer_pop_lock
    \/ timer_pop_loop
    \/ timer_send
    \/ timer_stats
    \/ timer_resched

PacerNext ==
    \/ connected
    \/ disconnected
    \/ ccc_cfg_changed
    \/ ble_wait
    \/ ble_arm
    \/ ble_check
    \/ timer_fire
    \/ timer_pop_lock
    \/ timer_pop_loop
    \/ timer_send
    \/ timer_stats
    \/ timer_resched
    \/ dmic_push_block

SpecPacer ==
    /\ Init
    /\ [][PacerNext]_vars
    /\ WF_vars(ble_streaming_thread)
    /\ WF_vars(audio_timer_handler)

(* ---------------------------------------------------------------------- *)
(* Sine-wave streaming, custom_audio_service.c:73-174                      *)
(* ---------------------------------------------------------------------- *)
\* custom_audio_service.c:86: phase_accumulator += phase_increment, modulo 2^32
PhaseStep(phase) ==
    LET lo == phase.lo + (phase_increment % Half)
        hi == phase.hi + (phase_increment \div Half) + (lo \div Half)
    IN  [hi |-> hi % Half, lo |-> lo % Half]

\* custom_audio_service.c:80-88: the phase after `count` samples
RECURSIVE generate_sine_wave_samples(_, _)
generate_sine_wave_samples(phase, count) ==
    IF count = 0 THEN phase
    ELSE generate_sine_wave_samples(PhaseStep(phase), count - 1)

pipevars == <<ringvars, timervars, ble_pc, dmicvars, next_sample, delivered,
              popped, lastop, e2e>>

othervars == <<pipevars, obs>>

\* variant: the call resets and schedules without looking at streaming_active
start_sine_wave_streaming_unguarded ==
    /\ streaming_active' = TRUE
    /\ phase_accumulator' = Phase0
    /\ packet_count' = 0
    /\ error_count' = 0
    /\ obs' = [obs EXCEPT !.fail_run = 0, !.run_logs = 0]
    /\ sine_pending' = (sine_pending \/ ~sine_canceling)
    /\ ev' = [name |-> "start", seq |-> 1 - ev.seq, was |-> streaming_active,
              cancel |-> FALSE,
              ret |-> "none", notified |-> FALSE, res |-> "none"]
    /\ UNCHANGED <<sine_canceling, sine_pc, envvars, pipevars>>

\* custom_audio_service.c:140-155; k_work_schedule does nothing for a work
\* that is already scheduled or in cancellation
start_sine_wave_streaming ==
    /\ IF streaming_active
       THEN UNCHANGED <<streaming_active, phase_accumulator, packet_count,
                        error_count, sine_pending, obs>>
       ELSE /\ streaming_active' = TRUE
            /\ phase_accumulator' = Phase0
            /\ packet_count' = 0
            /\ error_count' = 0
            /\ obs' = [obs EXCEPT !.fail_run = 0, !.run_logs = 0]
            /\ sine_pending' = (sine_pending \/ ~sine_canceling)
    /\ ev' = [name |-> "start", seq |-> 1 - ev.seq, was |-> streaming_active,
              cancel |-> FALSE,
              ret |-> "none", notified |-> FALSE, res |-> "none"]
    /\ UNCHANGED <<sine_canceling, sine_pc, envvars, pipevars>>

\* custom_audio_service.c:157-174; ev.cancel records that
\* k_work_cancel_delayable was called
stop_sine_wave_streaming ==
    /\ IF ~streaming_active
       THEN UNCHANGED <<streaming_active, sine_pending, sine_canceling>>
       ELSE /\ streaming_active' = FALSE
            /\ sine_pending' = FALSE
            /\ sine_canceling' = (sine_pc # "idle")
    /\ ev' = [name |-> "stop", seq |-> 1 - ev.seq, was |-> streaming_active,
              cancel |-> streaming_active,
              ret |-> "none", notified |-> FALSE, res |-> "none"]
    /\ UNCHANGED <<phase_accumulator, packet_count, error_count, sine_pc,
                   envvars, othervars>>

\* a call of audio_data_send by the application; ev records the subscription
\* flag at the call, the radio's answer res and what the function did
call_audio_data_send ==
    /\ \E res \in NotifyResults :
          ev' = [name |-> "audio_data_send", seq |-> 1 - ev.seq,
                 was |-> notify_enabled, cancel |-> FALSE,
                 ret |-> audio_data_send(res).ret,
                 notified |-> audio_data_send(res).notified, res |-> res]
    /\ UNCHANGED <<sinevars, envvars, othervars>>

\* the work item fires; custom_audio_service.c:93-95
sine_fire ==
    /\ sine_pending
    /\ sine_pc = "idle"
    /\ packet_count + error_count < MaxSinePackets
    /\ sine_pending' = FALSE
    /\ sine_pc' = IF ~streaming_active \/ ~notify_enabled THEN "idle" ELSE "send"
    /\ UNCHANGED <<streaming_active, packet_count, error_count,
                   phase_accumulator, sine_canceling, envvars, othervars, ev>>

\* custom_audio_service.c:104: whether LOG_ERR is called for a failure that
\* brings error_count to n
sine_failure_logged(n) == TRUE

\* custom_audio_service.c:97-113
sine_send ==
    /\ sine_pc = "send"
    /\ phase_accumulator' =
          generate_sine_wave_samples(phase_accumulator, SAMPLES_PER_PACKET)
    /\ \E err \in NotifyResults :
          IF err # "ok"
          THEN /\ error_count' = error_count + 1
               /\ obs' = [obs EXCEPT
                             !.fail_run = @ + 1,
                             !.run_logs = IF sine_failure_logged(error_count')
                                          THEN @ + 1 ELSE @]
               /\ UNCHANGED packet_count
          ELSE /\ packet_count' = packet_count + 1
               /\ obs' = [obs EXCEPT !.fail_run = 0, !.run_logs = 0]
               /\ UNCHANGED error_count
    /\ sine_pc' = "resched"
    /\ UNCHANGED <<streaming_active, sine_pending, sine_canceling, envvars,
                   pipevars, ev>>

\* custom_audio_service.c:116: k_work_schedule, then the handler returns
sine_resched ==
    /\ sine_pc = "resched"
    /\ sine_pending' = (sine_pending \/ ~sine_canceling)
    /\ sine_canceling' = FALSE
    /\ sine_pc' = "idle"
    /\ UNCHANGED <<streaming_active, packet_count, error_count,
                   phase_accumulator, envvars, othervars, ev>>

(* ---------------------------------------------------------------------- *)
(* SpecSine: the sine-wave API called in any order, its work handler and   *)
(* the inbound events                                                      *)
(* ---------------------------------------------------------------------- *)
SineNext ==
    \/ connected
    \/ disconnected
    \/ ccc_cfg_changed
    \/ start_sine_wave_streaming
    \/ stop_sine_wave_streaming
    \/ call_audio_data_send
    \/ sine_fire
    \/ sine_send
    \/ sine_resched

SpecSine == Init /\ [][SineNext]_vars

\* C6: start_sine_wave_streaming called while streaming is active leaves the
\* state, the counters and the pending tick as they were;
\* stop_sine_wave_streaming called while streaming is stopped changes nothing
\* and issues no cancellation.
C6_EnableDisableIdempotent ==
    [][/\ (ev' # ev /\ ev'.name = "start" /\ streaming_active) =>
             UNCHANGED sinevars
       /\ (ev' # ev /\ ev'.name = "stop" /\ ~streaming_active) =>
             (UNCHANGED sinevars /\ ~ev'.cancel)]_vars

\* a second start arrived while streaming was active with packets counted
C6_Witness ==
    /\ ev.name = "start"
    /\ ev.was
    /\ streaming_active
    /\ packet_count > 0
    /\ error_count > 0

\* C11: audio_data_send called while notify_enabled is clear returns -ENOTCONN
\* without calling bt_gatt_notify; called while it is set it calls
\* bt_gatt_notify and returns that call's result unchanged; either way it
\* changes nothing of the service's or the pipeline's state.
C11_SendRequiresSubscription ==
    [][(ev' # ev /\ ev'.name = "audio_data_send") =>
          /\ ~notify_enabled => (ev'.ret = "ENOTCONN" /\ ~ev'.notified)
          /\ notify_enabled => (ev'.notified /\ ev'.ret = ev'.res)
          /\ UNCHANGED <<envvars, sinevars, ringvars, timervars, dmicvars,
                         delivered>>]_vars

\* a connected peer that has not subscribed: the call was refused although the
\* radio would have accepted the data
C11_Witness ==
    /\ ev.name = "audio_data_send"
    /\ conn
    /\ ~ev.was
    /\ ev.res = "ok"
    /\ ev.ret = "ENOTCONN"

\* C21 (as claimed): in a run of consecutive failed notifies at most every
\* second failure gets a diagnostic (every K-th for some K > 1), so never
\* every one of them.
C21_FailuresLoggedDecimated ==
    2 * obs.run_logs <= obs.fail_run + 1

\* the part of C21 that holds of sine_work_handler: error_count counts every
\* failure of the run
C21_EveryFailureCounted ==
    [][obs'.fail_run = obs.fail_run + 1 =>
          error_count' = error_count + 1]_vars

\* C23 (as claimed): while sine streaming is active and the peer is
\* subscribed, a tick of sine_work is pending or its handler is running
\* (start_sine_wave_streaming does nothing while streaming_active is set, so
\* a tick that is missing cannot be scheduled by calling it again).
C23_SineTickWhileActive ==
    (streaming_active /\ notify_enabled) => (sine_pending \/ sine_pc # "idle")

\* C13 on sine_work_handler, which does keep an errors counter: a failed
\* notify adds exactly one to error_count, leaves packet_count and
\* streaming_active as they were and goes on to k_work_schedule
C13_SineFailureCounted ==
    [][(/\ sine_pc = "send"
        /\ sine_pc' # "send"
        /\ packet_count' = packet_count) =>
          /\ error_count' = error_count + 1
          /\ UNCHANGED streaming_active
          /\ sine_pc' = "resched"]_vars

(* ---------------------------------------------------------------------- *)
(* SpecE2E: sessions driven call by call.  An activation is the CCC        *)
(* callback with NOTIFY followed by the BLE thread arming the timer        *)
(* (main.c:418-427), a burst is one ring_buffer_write_samples call of the  *)
(* capture thread, a tick is one run of audio_timer_handler, a             *)
(* deactivation is the CCC callback without NOTIFY followed by the BLE     *)
(* thread cancelling the timer (main.c:433-436).  e2e records, since the   *)
(* last activation, whether bursts of exactly CHUNK_SAMPLES alternated     *)
(* with ticks whose send succeeded, and counts evictions and underruns.    *)
(* ---------------------------------------------------------------------- *)
e2e_frozen == <<ring_mutex, timer_canceling, ble_pc, dmicvars, sinevars, timer_pc,
                sample_buffer, pop_to_read, popped, lastop, ev>>

E2E_Activate ==
    /\ ~mic_streaming
    /\ conn' = TRUE
    /\ notify_enabled' = TRUE
    /\ enable_microphone_streaming
    /\ IF ~audio_timer_is_pending
       THEN /\ audio_packet_counter' = 0
            /\ timer_pending' = TRUE
       ELSE UNCHANGED <<audio_packet_counter, timer_pending>>
    /\ e2e' = [bursts |-> 0, ticks |-> 0, evicted |-> 0, underruns |-> 0,
               stale |-> ring_buffer_used_samples(write_pos, read_pos),
               matched |-> TRUE, turn |-> "burst"]
    /\ obs' = [obs EXCEPT !.sent_ok = 0]
    /\ UNCHANGED <<ring_buffer, write_pos, read_pos, next_sample, delivered,
                   e2e_frozen>>

E2E_Deactivate ==
    /\ mic_streaming
    /\ notify_enabled' = FALSE
    /\ disable_microphone_streaming
    /\ timer_pending' = FALSE
    /\ e2e' = NoSession
    /\ UNCHANGED <<conn, ring_buffer, write_pos, read_pos, audio_packet_counter,
                   next_sample, delivered, e2e_frozen, obs>>

E2E_Burst ==
    /\ mic_streaming
    /\ \E k \in 1..MaxBurst :
          /\ next_sample + k <= MaxPushed
          /\ LET S  == Samples(next_sample, next_sample + k)
                 rb == ring_buffer_write_samples(RB, S)
                 lost == Len(Contents(RB)) + k - Len(Contents(rb))
                 ok == e2e.matched /\ e2e.turn = "burst" /\ k = CHUNK_SAMPLES
             IN  /\ ring_buffer' = rb.buf
                 /\ write_pos' = rb.w
                 /\ read_pos' = rb.r
                 /\ next_sample' = next_sample + k
                 /\ e2e' = IF ok
                           THEN [e2e EXCEPT !.bursts = @ + 1, !.evicted = @ + lost,
                                            !.turn = "tick"]
                           ELSE NoSession
    /\ UNCHANGED <<conn, notify_enabled, mic_streaming, timer_pending,
                   audio_packet_counter, delivered, e2e_frozen, obs>>

E2E_Tick ==
    /\ timer_pending
    /\ is_streaming_active
    /\ LET st == ring_buffer_read_samples(RB, CHUNK_SAMPLES)
           samples_read == Len(st.out)
       IN  /\ read_pos' = st.rb.r
           /\ \E res \in NotifyResults :
                 LET sent == AfterPop(samples_read) = "send"
                     err  == send_mic_audio_data(res)
                     ok   == e2e.matched /\ e2e.turn = "tick"
                               /\ (sent => err = "ok")
                 IN  /\ audio_packet_counter' =
                           IF sent /\ err = "ok" THEN audio_packet_counter + 1
                           ELSE audio_packet_counter
                     /\ delivered' = IF sent THEN Append(delivered, st.out)
                                     ELSE delivered
                     /\ obs' = IF sent /\ err = "ok"
                               THEN [obs EXCEPT !.sent_ok = @ + 1] ELSE obs
                     /\ e2e' = IF ok
                               THEN [e2e EXCEPT !.ticks = @ + 1,
                                        !.underruns = @ + (IF sent THEN 0 ELSE 1),
                                        !.turn = "burst"]
                               ELSE NoSession
    /\ timer_pending' = TRUE
    /\ UNCHANGED <<conn, ring_buffer, write_pos, notify_enabled, mic_streaming,
                   next_sample, e2e_frozen>>

E2ENext == E2E_Activate \/ E2E_Deactivate \/ E2E_Burst \/ E2E_Tick

SpecE2E == Init /\ [][E2ENext]_vars

\* C10 (as claimed): in a session whose bursts of exactly CHUNK_SAMPLES
\* samples alternate with ticks whose send succeeds, with
\* RING_BUFFER_SAMPLES >= 2 * CHUNK_SAMPLES, every tick transmits one full
\* frame, no tick is an underrun, no sample is evicted, and after k bursts
\* and k ticks audio_packet_counter = k.
C10_MatchedRates ==
    (e2e.matched /\ RING_BUFFER_SAMPLES >= 2 * CHUNK_SAMPLES) =>
        /\ e2e.evicted = 0
        /\ e2e.underruns = 0
        /\ audio_packet_counter = e2e.ticks
        /\ e2e.turn = "burst" => e2e.bursts = e2e.ticks

\* C10 restricted to sessions that found the ring empty when activated
C10_FromEmptyRing ==
    (e2e.matched /\ e2e.stale = 0 /\ RING_BUFFER_SAMPLES >= 2 * CHUNK_SAMPLES) =>
        /\ e2e.evicted = 0
        /\ e2e.underruns = 0
        /\ audio_packet_counter = e2e.ticks
        /\ e2e.turn = "burst" => e2e.bursts = e2e.ticks

(* ---------------------------------------------------------------------- *)
(* Properties of the pipeline (Spec)                                       *)
(* ---------------------------------------------------------------------- *)
RECURSIVE Flatten(_)
Flatten(frames) ==
    IF frames = <<>> THEN <<>> ELSE Head(frames) \o Flatten(Tail(frames))

\* a is b with some elements left out
RECURSIVE IsSubsequence(_, _)
IsSubsequence(a, b) ==
    IF a = <<>> THEN TRUE
    ELSE IF b = <<>> THEN FALSE
    ELSE IF Head(a) = Head(b) THEN IsSubsequence(Tail(a), Tail(b))
    ELSE IsSubsequence(a, Tail(b))

\* C4: the timer handler reaches the sink only with a pop that returned
\* exactly CHUNK_SAMPLES samples; every frame handed to the sink has exactly
\* CHUNK_SAMPLES samples, which one pop copied (they were adjacent in the ring).
C4_OnlyFullFramesSent ==
    /\ timer_pc = "send" =>
          /\ Len(sample_buffer) = CHUNK_SAMPLES
          /\ pop_to_read = CHUNK_SAMPLES
    /\ \A f \in 1..Len(delivered) :
          /\ Len(delivered[f]) = CHUNK_SAMPLES
          /\ \A j \in 1..(CHUNK_SAMPLES - 1) :
                delivered[f][j + 1] = delivered[f][j] + 1

\* a tick that popped a partial chunk is about to reschedule without having
\* called the sink, after an earlier tick sent a full frame
C4_Witness ==
    /\ timer_pc = "resched"
    /\ Len(sample_buffer) > 0
    /\ Len(sample_buffer) < CHUNK_SAMPLES
    /\ Len(delivered) = 1

\* C5 (as claimed): at every Disabled->Active transition the packet counter
\* is 0 and the ring is logically empty with both cursors at 0.
C5_ResetOnActivate ==
    [][(~mic_streaming /\ mic_streaming') =>
          /\ audio_packet_counter' = 0
          /\ write_pos' = 0
          /\ read_pos' = 0
          /\ ring_buffer_used_samples(write_pos', read_pos') = 0]_vars

\* C7 (as claimed): while the session is Disabled no tick of the audio timer
\* is pending and none is popping the ring or calling the sink.
C7_DisableCancelsTick ==
    ~mic_streaming =>
        /\ ~timer_pending
        /\ timer_pc \notin {"pop_lock", "pop_loop", "send"}

\* C8: after the disconnect handler the session is Disabled, whatever the
\* session state and the subscription flag were before.
C8_DisconnectDisables ==
    ev.name = "disconnected" => (~conn /\ ~mic_streaming)

\* a disconnect hit an Active session, and the subscription flag is still set
C8_Witness ==
    /\ ev.name = "disconnected"
    /\ ev.was
    /\ notify_enabled
    /\ ~mic_streaming

\* C9: the samples handed to the sink are an order-preserving subsequence of
\* the samples pushed: none twice, none out of capture order.
C9_DeliveredIsSubsequence ==
    IsSubsequence(Flatten(delivered), pushed)

\* two frames were sent and the oldest sample was lost to eviction
C9_Witness ==
    /\ Len(delivered) >= 2
    /\ delivered[1][1] > 0

\* C14: the audio timer never overlaps itself.  While its handler runs no
\* tick is pending (so at most one tick is running or pending at any time),
\* and a tick becomes pending only by the handler's own k_work_schedule at
\* its end, or by ble_streaming_thread when no tick is pending or running.
C14_PacerNonOverlapping ==
    [][/\ ~(timer_pending' /\ timer_pc' # "idle")
       /\ (~timer_pending /\ timer_pending') =>
             \/ (timer_pc = "resched" /\ timer_pc' = "idle")
             \/ (ble_pc = "arm" /\ timer_pc = "idle")]_vars

\* ble_streaming_thread has come round to arming while a tick is in its send
C14_Witness ==
    /\ ble_pc = "arm"
    /\ timer_pc = "send"
    /\ ~timer_pending
    /\ mic_streaming

\* C15: if from some point on the session stays Active, ticks of the audio
\* timer fire again and again (the handler passes its is_streaming_active
\* test and goes on to pop).
C15_ActivationArmsPacer ==
    <>[]mic_streaming => []<>(timer_pc = "pop_lock")

\* the session is Active, ble_streaming_thread has passed its arming step and
\* sleeps, and no tick is pending or running: the timer went unarmed (a tick
\* found the session Disabled, or was cancelled) and must be armed again
C15_Witness ==
    /\ mic_streaming
    /\ ble_pc = "sleep"
    /\ ~timer_pending
    /\ timer_pc = "idle"

\* C12 (as claimed): in every state audio_packet_counter is the number of
\* ticks since the last Disabled->Active transition that sent a full frame
\* with success.
C12_PacketsSentCountsSuccesses ==
    audio_packet_counter = obs.sent_ok

\* the part of C12 that holds of audio_timer_handler: the counter goes up only
\* by one, and only in a tick that handed a full frame to the sink and got
\* success; the only other change is the reset by ble_streaming_thread
C12_IncrementOnlyOnSuccess ==
    [][audio_packet_counter' # audio_packet_counter =>
          \/ /\ ble_pc = "arm"
             /\ audio_packet_counter' = 0
          \/ /\ timer_pc = "send"
             /\ Len(sample_buffer) = CHUNK_SAMPLES
             /\ audio_packet_counter' = audio_packet_counter + 1
             /\ obs'.sent_ok = obs.sent_ok + 1]_vars

\* C13 (as claimed): a tick of the audio timer in Active whose send fails
\* adds exactly one to the errors counter (the program's only one is
\* error_count), leaves audio_packet_counter and the session state as they
\* were and goes on to reschedule.
C13_SinkFailureCounted ==
    [][(/\ mic_streaming
        /\ timer_pc = "send"
        /\ timer_pc' # "send"
        /\ audio_packet_counter' = audio_packet_counter) =>
          /\ error_count' = error_count + 1
          /\ UNCHANGED mic_streaming
          /\ timer_pc' = "resched"]_vars

\* the part of C13 that holds of audio_timer_handler: a failed send changes
\* neither the counter nor the session state, and the handler goes on to
\* k_work_schedule
C13_FailureIsNotFatal ==
    [][(/\ timer_pc = "send"
        /\ timer_pc' # "send"
        /\ audio_packet_counter' = audio_packet_counter) =>
          /\ UNCHANGED <<mic_streaming, notify_enabled, ringvars>>
          /\ timer_pc' = "resched"]_vars

\* C16 (as claimed): while the session is Disabled the capture thread makes
\* no dmic_read call and writes no sample into the ring.
C16_NoCaptureWhileDisabled ==
    [][/\ (dmic_pc = "read" /\ dmic_pc' # "read") => mic_streaming
       /\ next_sample' # next_sample => mic_streaming]_vars

\* C17 (as claimed): once the session is Disabled the capture source gets
\* stopped.  The capture thread leaves its wait loop (main.c:293) only when
\* the session is Active again, so when it waits there with the session
\* Disabled nothing more happens to dmic_started until the next activation:
\* the claim requires dmic_started to be false in every such state.
C17_CaptureStoppedWhileDisabled ==
    (~mic_streaming /\ dmic_pc = "wait") => ~dmic_started

\* C18: the capture thread holds a block only between a successful dmic_read
\* and the k_mem_slab_free of the same iteration, pushed or not: it never
\* holds more than one, holds none when it issues the next dmic_read (or
\* waits, or starts or stops the DMIC), and the blocks outstanding never
\* exceed the DMIC_BLOCK_COUNT blocks of the slab.
C18_BlockReleasedEachIteration ==
    /\ holding \in 0..1
    /\ holding <= DMIC_BLOCK_COUNT
    /\ dmic_pc \in {"wait", "start", "read", "read_failed", "stop_check"} =>
          holding = 0
    /\ dmic_pc \in {"process", "push_lock", "push_loop", "stats", "free"} =>
          holding = 1

\* a block was read and released although the session was Disabled before its
\* samples could be pushed: nothing was ever written into the ring
C18_Witness ==
    /\ dmic_pc = "stop_check"
    /\ holding = 0
    /\ ~mic_streaming
    /\ dmic_started
    /\ next_sample = 0

\* C19 (as claimed): neither context reads or writes write_pos or read_pos
\* while the other is inside ring_buffer_write_samples or
\* ring_buffer_read_samples: the cursors change only under the caller's own
\* lock, and the ring_buffer_used_samples calls of the two log lines
\* (main.c:345, 391) are made while the other context does not hold the lock.
C19_RingOpsSerialized ==
    [][/\ write_pos' # write_pos => (ring_mutex = "dmic" /\ ring_mutex' = "dmic")
       /\ read_pos' # read_pos => (ring_mutex # "free" /\ ring_mutex' = ring_mutex)
       /\ (timer_pc = "stats" /\ timer_pc' # "stats") => ring_mutex # "dmic"
       /\ (dmic_pc = "stats" /\ dmic_pc' # "stats") => ring_mutex # "timer"]_vars

\* the part of C19 that holds: push and pop exclude each other, and the
\* cursors are written only by the context that holds the lock
C19_WritesUnderLock ==
    [][/\ write_pos' # write_pos => (ring_mutex = "dmic" /\ ring_mutex' = "dmic")
       /\ read_pos' # read_pos => (ring_mutex # "free" /\ ring_mutex' = ring_mutex)
       /\ ~(dmic_pc = "push_loop" /\ timer_pc = "pop_loop")]_vars

\* C19 (as claimed) for the read of main.c:391 alone; it fails as well: the
\* timer handler reads the cursors while the capture thread is inside a push
C19_TimerReadsOutsidePush ==
    [][(timer_pc = "stats" /\ timer_pc' # "stats") => ring_mutex # "dmic"]_vars

\* C20: ring_mutex is held exactly while its owner is in the copy loop of
\* ring_buffer_write_samples or ring_buffer_read_samples, which releases it
\* before returning: the capture thread does not hold it in dmic_trigger,
\* dmic_read or k_mem_slab_free, and the timer handler does not hold it in
\* send_mic_audio_data or k_work_schedule.
C20_LockNotHeldAcrossIO ==
    /\ ring_mutex \in {"free", "dmic", "timer"}
    /\ ring_mutex = "dmic" <=> dmic_pc = "push_loop"
    /\ ring_mutex = "timer" <=> timer_pc = "pop_loop"
    /\ dmic_pc \in {"start", "read", "read_failed", "free", "stop_check"} =>
          ring_mutex # "dmic"
    /\ timer_pc \in {"send", "resched"} => ring_mutex # "timer"

\* the timer handler is in its send while the capture thread copies a block
\* into the ring under the lock
C20_Witness ==
    /\ timer_pc = "send"
    /\ dmic_pc = "push_loop"
    /\ ring_mutex = "dmic"
    /\ push_i > 1

\* C22 (as claimed): the timer handler takes samples out of the ring only as
\* part of a full frame: a tick that finds fewer than CHUNK_SAMPLES samples
\* leaves read_pos, and with it used() and the retained samples, as they
\* were.
C22_UnderrunLeavesRing ==
    [][(read_pos' # read_pos /\ ring_mutex = "timer") =>
          pop_to_read = CHUNK_SAMPLES]_vars

\* what audio_timer_handler does instead: ring_buffer_read_samples removes
\* every sample it finds, and the tick that got fewer than CHUNK_SAMPLES
\* drops them without calling the sink
C22_PartialPopDiscarded ==
    (timer_pc = "resched" /\ Len(sample_buffer) < CHUNK_SAMPLES) =>
        /\ Len(sample_buffer) = pop_to_read
        /\ \A f \in 1..Len(delivered) :
              \A j \in 1..Len(sample_buffer) :
                 \A i \in 1..CHUNK_SAMPLES : delivered[f][i] # sample_buffer[j]

(* ---------------------------------------------------------------------- *)
(* Properties of the ring (SpecRing)                                       *)
(* ---------------------------------------------------------------------- *)

\* C1: push is overwrite-oldest.  After push(S) on a ring holding Q the ring
\* holds exactly the last min(N-1, |Q|+|S|) elements of Q followed by S, in
\* order; read_pos has advanced by one for each sample that found the ring
\* full, write_pos by |S| (no sample is rejected).  Pushing 0..N+1 into an
\* empty ring leaves 3..N+1, and pop(N-1) then returns them in that order
\* (for N = 8 that is [3,4,5,6,7,8,9]).
C1_PushOverwritesOldest ==
    /\ lastop.kind = "push" =>
          LET Q     == lastop.pre
              S     == lastop.arg
              all   == Q \o S
              keep  == Min(N - 1, Len(all))
              evict == Len(all) - keep
          IN  /\ Contents(RB) = LastK(all, N - 1)
              /\ Len(Contents(RB)) = keep
              /\ read_pos = (lastop.pre_r + evict) % N
              /\ write_pos = (lastop.pre_w + Len(S)) % N
              /\ (Q = <<>> /\ S = Samples(0, N + 2)) =>
                     Contents(RB) = Samples(3, N + 2)
    /\ (lastop.kind = "pop" /\ lastop.max = N - 1
            /\ lastop.pre = Samples(3, N + 2)) =>
          lastop.out = Samples(3, N + 2)

C1_Witness ==
    /\ lastop.kind = "push"
    /\ lastop.pre = <<>>
    /\ lastop.arg = Samples(0, N + 2)
    /\ Contents(RB) = Samples(3, N + 2)

\* C2: pop(max_count) on a ring holding `used` samples returns exactly
\* min(max_count, used) samples, the oldest ones in FIFO order, removes
\* exactly those (read_pos advances by that amount modulo N) and leaves
\* write_pos, the array and the remaining samples unchanged; on an empty
\* ring it returns nothing and changes nothing.
C2_PopFifoPrefix ==
    lastop.kind = "pop" =>
        LET Q == lastop.pre
            n == Min(lastop.max, Len(Q))
        IN  /\ Len(lastop.out) = n
            /\ lastop.out = SubSeq(Q, 1, n)
            /\ Contents(RB) = SubSeq(Q, n + 1, Len(Q))
            /\ read_pos = (lastop.pre_r + n) % N
            /\ write_pos = lastop.pre_w
            /\ ring_buffer = lastop.pre_buf
            /\ Q = <<>> => (lastop.out = <<>> /\ read_pos = lastop.pre_r)

C2_Witness ==
    /\ lastop.kind = "pop"
    /\ lastop.max > 0
    /\ lastop.max < Len(lastop.pre)
    /\ lastop.pre_r + lastop.max >= N
    /\ Len(Contents(RB)) > 0

\* C3: the cursors stay in [0, N), used = (write_pos - read_pos) mod N,
\* used <= N-1, used + available = N-1, and while no pop has been made
\* used = min(total samples pushed, N-1).
C3_CursorInvariant ==
    LET used  == ring_buffer_used_samples(write_pos, read_pos)
        avail == ring_buffer_available_samples(write_pos, read_pos)
    IN  /\ write_pos \in 0..(N - 1)
        /\ read_pos \in 0..(N - 1)
        /\ used = (write_pos - read_pos) % N
        /\ used <= N - 1
        /\ used + avail = N - 1
        /\ ~popped => used = Min(next_sample, N - 1)

C3_Witness ==
    /\ ~popped
    /\ next_sample > N - 1
    /\ ring_buffer_used_samples(write_pos, read_pos) = N - 1
    /\ write_pos < read_pos

====
